---------------------------- MODULE Spec2Model ----------------------------
(***************************************************************************)
(* jdiff: structural comparison of two JSON documents.                     *)
(*                                                                         *)
(* The module models src/src/lib.rs: Config::new, run, parse_json,         *)
(* compare_values, Delta::new, Delta::to_value, Delta::write_delta and the *)
(* three standard filters.  A serde_json Value is a record tagged by its   *)
(* variant (field k); a Delta is a record tagged by its variant (field d). *)
(* A JSON object is a function from its keys to Values, so that, as in     *)
(* serde_json, two objects are equal whatever the order of their keys.     *)
(***************************************************************************)
EXTENDS Integers, Sequences, FiniteSets, TLC

VARIABLES
    args,      \* the command line
    pc,        \* the statement run is at
    config,    \* the Config built from args
    val1,      \* let val1 of run
    val2,      \* let val2 of run
    delta,     \* let delta of run
    files,     \* the output files: path -> what it holds
    io,        \* the reads and writes performed so far, in order
    result     \* what Config::new or run returned

RECURSIVE ValuesOfSize(_)
RECURSIVE SeqsOfSize(_, _)
RECURSIVE compare_values(_, _)
RECURSIVE compare_arrays(_, _)
RECURSIVE compare_objects(_, _)
RECURSIVE to_value(_, _)
RECURSIVE collect_list(_, _, _)

---------------------------------------------------------------------------
(* Bounds of the model.                                                    *)

\* Largest number of nodes of a generated input document.
MaxNodes == 2
\* Numbers 1..MaxNum occur as number leaves.
MaxNum == 2
\* Longest argument vector tried (program name included).
MaxArgs == 5

---------------------------------------------------------------------------
(* serde_json::Value                                                       *)

Null == [k |-> "Null"]
Bool(b) == [k |-> "Bool", v |-> b]
Number(n) == [k |-> "Number", v |-> n]
String(s) == [k |-> "String", v |-> s]
Array(s) == [k |-> "Array", v |-> s]
Object(m) == [k |-> "Object", v |-> m]

EmptyMap == [key \in {} |-> Null]

\* Object keys of the generated documents, in a fixed order.
Keys == <<"a", "b">>

Scalars ==
    {Null} \cup {Bool(b) : b \in BOOLEAN}
           \cup {Number(n) : n \in 1..MaxNum}
           \cup {String("s")}

\* The non-empty sets of positions of Keys, as increasing sequences.
KeyChoices == {<<1>>, <<2>>, <<1, 2>>}

\* All sequences of len values whose node counts sum to total.
SeqsOfSize(total, len) ==
    IF len = 0
    THEN IF total = 0 THEN {<<>>} ELSE {}
    ELSE UNION { { <<x>> \o r : x \in ValuesOfSize(n),
                                r \in SeqsOfSize(total - n, len - 1) }
                 : n \in 1..(total - (len - 1)) }

\* All values of exactly n nodes (a container counts one node itself).
ValuesOfSize(n) ==
    IF n < 1 THEN {}
    ELSE IF n = 1 THEN Scalars \cup {Array(<<>>), Object(EmptyMap)}
    ELSE { Array(s) : s \in UNION { SeqsOfSize(n - 1, len) : len \in 1..(n - 1) } }
         \cup
         { Object([key \in { Keys[c[i]] : i \in 1..Len(c) } |->
                     s[CHOOSE i \in 1..Len(c) : Keys[c[i]] = key]])
           : <<c, s>> \in UNION { {ch} \X SeqsOfSize(n - 1, Len(ch)) : ch \in KeyChoices } }

\* The documents of section 8 of the specification.
ExampleDocs ==
    { Array(<<Number(1), Number(2), Number(3)>>),
      Array(<<Number(1), Number(9)>>),
      Object([key \in {"a"} |-> Number(1)]),
      Object([key \in {"a"} |-> Array(<<Number(1)>>)]),
      Object([key \in {"x"} |-> Number(1)]) }

\* Documents with two keys and two levels of nesting.
NestedDocs ==
    { Object([key \in {"a", "b"} |->
                IF key = "a" THEN Number(1) ELSE Array(<<Null>>)]),
      Object([key \in {"a", "x"} |->
                IF key = "a" THEN Number(2) ELSE Null]),
      Array(<<Array(<<Number(1), Number(2)>>),
              Object([key \in {"a"} |-> Null])>>),
      Array(<<Array(<<Number(1)>>),
              Object([key \in {"a", "b"} |->
                        IF key = "a" THEN Null ELSE Number(2)])>>) }

\* The documents an input file may hold.
Docs ==
    UNION { ValuesOfSize(n) : n \in 1..MaxNodes } \cup ExampleDocs \cup NestedDocs

---------------------------------------------------------------------------
(* Delta                                                                   *)

Equal(val) == [d |-> "Equal", v |-> val]
DifferentContent(lhs, rhs) == [d |-> "DifferentContent", v1 |-> lhs, v2 |-> rhs]
DifferentVariant(lhs, rhs) == [d |-> "DifferentVariant", v1 |-> lhs, v2 |-> rhs]
MissingInSecond(val) == [d |-> "MissingInSecond", v |-> val]
MissingInFirst(val) == [d |-> "MissingInFirst", v |-> val]
List(l) == [d |-> "List", list |-> l]
Map(m) == [d |-> "Map", map |-> m]

\* Delta::new
Delta_new(lhs, rhs) ==
    IF lhs = rhs THEN Equal(lhs) ELSE DifferentContent(lhs, rhs)

Min(x, y) == IF x < y THEN x ELSE y
Max(x, y) == IF x > y THEN x ELSE y

\* The array arm of compare_values without its second loop: the result
\* stops at the shorter length.
compare_arrays_zip_only(v1, v2) ==
    List([i \in 1..Min(Len(v1), Len(v2)) |-> compare_values(v1[i], v2[i])])

\* compare_values, the arm (Value::Array(ref v1), Value::Array(ref v2)):
\* comparison where the "key" is the index of the nodes in the array.
compare_arrays(v1, v2) ==
    LET \* for (val1, val2) in v1.iter().zip(v2.iter())
        zipped == [i \in 1..Min(Len(v1), Len(v2)) |-> compare_values(v1[i], v2[i])]
        missing_in_second == Len(v1) > Len(v2)
        \* v1.iter().skip(v2.len()) or v2.iter().skip(v1.len())
        it == IF missing_in_second
              THEN SubSeq(v1, Len(v2) + 1, Len(v1))
              ELSE SubSeq(v2, Len(v1) + 1, Len(v2))
        rest == [i \in 1..Len(it) |->
                   IF missing_in_second
                   THEN MissingInSecond(it[i])
                   ELSE MissingInFirst(it[i])]
    IN  List(zipped \o rest)

\* The object arm of compare_values without its loop over the second map.
compare_objects_first_only(m1, m2) ==
    Map([key \in DOMAIN m1 |->
           IF key \in DOMAIN m2
           THEN compare_values(m1[key], m2[key])
           ELSE MissingInSecond(m1[key])])

\* compare_values, the arm (Value::Object(ref m1), Value::Object(ref m2)):
\* compare according to the key of the nodes in the map.
compare_objects(m1, m2) ==
    LET \* iterate over the nodes of the first document
        first == [key \in DOMAIN m1 |->
                    IF key \in DOMAIN m2
                    THEN compare_values(m1[key], m2[key])
                    ELSE MissingInSecond(m1[key])]
        \* iterate over the nodes of the second document
        second == [key \in DOMAIN m2 \ DOMAIN m1 |-> MissingInFirst(m2[key])]
    IN  Map(first @@ second)

\* compare_values whose last arm builds a DifferentContent.
compare_values_no_variant(lhs, rhs) ==
    IF lhs.k = "Null" /\ rhs.k = "Null" THEN Equal(lhs)
    ELSE IF lhs.k = "Bool" /\ rhs.k = "Bool" THEN Delta_new(lhs, rhs)
    ELSE IF lhs.k = "Number" /\ rhs.k = "Number" THEN Delta_new(lhs, rhs)
    ELSE IF lhs.k = "String" /\ rhs.k = "String" THEN Delta_new(lhs, rhs)
    ELSE IF lhs.k = "Array" /\ rhs.k = "Array" THEN compare_arrays(lhs.v, rhs.v)
    ELSE IF lhs.k = "Object" /\ rhs.k = "Object" THEN compare_objects(lhs.v, rhs.v)
    ELSE DifferentContent(lhs, rhs)

\* compare_values: match (val1, val2)
compare_values(lhs, rhs) ==
    IF lhs.k = "Null" /\ rhs.k = "Null" THEN Equal(lhs)
    ELSE IF lhs.k = "Bool" /\ rhs.k = "Bool" THEN Delta_new(lhs, rhs)
    ELSE IF lhs.k = "Number" /\ rhs.k = "Number" THEN Delta_new(lhs, rhs)
    ELSE IF lhs.k = "String" /\ rhs.k = "String" THEN Delta_new(lhs, rhs)
    ELSE IF lhs.k = "Array" /\ rhs.k = "Array" THEN compare_arrays(lhs.v, rhs.v)
    ELSE IF lhs.k = "Object" /\ rhs.k = "Object" THEN compare_objects(lhs.v, rhs.v)
    ELSE DifferentVariant(lhs, rhs)

---------------------------------------------------------------------------
(* Filters and Delta::to_value                                             *)

None == [opt |-> "None"]
Some(val) == [opt |-> "Some", val |-> val]

\* the closure `equal` of write_equal_set
equal(d) ==
    IF d.d = "Equal" THEN Some(d.v) ELSE None

\* the closure `delta_to_second` of write_delta_to_second_set
delta_to_second(d) ==
    IF d.d \in {"DifferentContent", "DifferentVariant"}
    THEN Some(Array(<<d.v1, d.v2>>))
    ELSE IF d.d = "MissingInSecond" THEN Some(d.v)
    ELSE None

\* delta_to_first that keeps the order of the pair.
delta_to_first_unreversed(d) ==
    IF d.d \in {"DifferentContent", "DifferentVariant"}
    THEN Some(Array(<<d.v1, d.v2>>))
    ELSE IF d.d = "MissingInFirst" THEN Some(d.v)
    ELSE None

\* the closure `delta_to_first` of write_delta_to_first_set
delta_to_first(d) ==
    IF d.d \in {"DifferentContent", "DifferentVariant"}
    THEN Some(Array(<<d.v2, d.v1>>))
    ELSE IF d.d = "MissingInFirst" THEN Some(d.v)
    ELSE None

\* The three closures handed to to_value, by name.
Filters == {"equal", "delta_to_second", "delta_to_first"}

\* filter_node(self): the call of the closure named f.
filter_node(f, d) ==
    CASE f = "equal" -> equal(d)
      [] f = "delta_to_second" -> delta_to_second(d)
      [] f = "delta_to_first" -> delta_to_first(d)

\* collect_list that pushes every child, Value::Null included.
collect_list_keep_null(list, f, n) ==
    [i \in 1..n |-> to_value(list[i], f)]

\* The loop of to_value over the first n deltas of a List: a child whose
\* value is Value::Null is skipped, any other is pushed.
collect_list(list, f, n) ==
    IF n = 0 THEN <<>>
    ELSE LET array == collect_list(list, f, n - 1)
             diff == to_value(list[n], f)
         IN  IF diff.k = "Null" THEN array ELSE Append(array, diff)

\* The loop of to_value over a Map: a key whose value is Value::Null is
\* skipped, any other is inserted.
collect_map(map, f) ==
    [key \in { q \in DOMAIN map : to_value(map[q], f).k # "Null" } |->
        to_value(map[key], f)]

\* Delta::to_value
to_value(d, f) ==
    LET r == filter_node(f, d)
    IN  IF r.opt = "Some" THEN r.val
        ELSE IF d.d = "List"
        THEN LET array == collect_list(d.list, f, Len(d.list))
             IN  IF array = <<>> THEN Null ELSE Array(array)
        ELSE IF d.d = "Map"
        THEN LET object == collect_map(d.map, f)
             IN  IF DOMAIN object = {} THEN Null ELSE Object(object)
        ELSE Null

---------------------------------------------------------------------------
(* Config::new, parse_json and run                                         *)

Ok(val) == [res |-> "Ok", val |-> val]
Err(msg) == [res |-> "Err", msg |-> msg]

\* The i-th word of the command line (1 is the program's name).
ArgName(i) ==
    CASE i = 1 -> "jdiff"
      [] i = 2 -> "input1"
      [] i = 3 -> "input2"
      [] i = 4 -> "output"
      [] OTHER -> "extra"

ArgVectors == { [i \in 1..n |-> ArgName(i)] : n \in 0..MaxArgs }

\* Config::new (args[0] of the source is args[1] here).
Config_new(a) ==
    IF Len(a) < 4
    THEN Err("Invalid number of arguments: <input1> <input2> <output>")
    ELSE Ok([first_input |-> a[2], second_input |-> a[3], output |-> a[4]])

\* What a path of the file system may hold when it is opened.
Missing == [st |-> "missing"]
Invalid == [st |-> "invalid"]
Json(doc) == [st |-> "json", doc |-> doc]
FileContents == {Missing, Invalid} \cup { Json(doc) : doc \in Docs }

\* parse_json: File::open, then serde_json::from_reader.
parse_json(file) ==
    IF file.st = "missing" THEN Err("open")
    ELSE IF file.st = "invalid" THEN Err("parse")
    ELSE Ok(file.doc)

\* A path: the name given on the command line and the suffix run appends.
Path(name, suffix) == <<name, suffix>>

\* What fs::write leaves behind.
Written(val) == [st |-> "written", val |-> val]
Partial == [st |-> "partial"]
Absent == [st |-> "absent"]
WriteOutcomes == {"ok", "not_created", "cut_short"}

NoValue == [k |-> "unset"]
NoDelta == [d |-> "unset"]
NoConfig == [first_input |-> "", second_input |-> "", output |-> ""]

vars == <<args, pc, config, val1, val2, delta, files, io, result>>

Suffixes == {"_eq.json", "_diff_ab.json", "_diff_ba.json"}
OutPaths == { Path("output", s) : s \in Suffixes }

Init ==
    /\ args \in ArgVectors
    /\ pc = "config"
    /\ config = NoConfig
    /\ val1 = NoValue
    /\ val2 = NoValue
    /\ delta = NoDelta
    /\ files = [p \in OutPaths |-> Absent]
    /\ io = <<>>
    /\ result = "none"

\* main: Config::new(&args), a usage error ending the process.
ConfigNew ==
    /\ pc = "config"
    /\ LET c == Config_new(args)
       IN  IF c.res = "Err"
           THEN /\ result' = "usage"
                /\ pc' = "done"
                /\ config' = config
           ELSE /\ config' = c.val
                /\ pc' = "read1"
                /\ result' = result
    /\ UNCHANGED <<args, val1, val2, delta, files, io>>

\* let val1 = parse_json(config.first_input)?;
ParseFirst ==
    /\ pc = "read1"
    /\ \E file \in FileContents :
         LET r == parse_json(file)
         IN  /\ io' = Append(io, [op |-> "read", path |-> Path(config.first_input, ""),
                                  ok |-> r.res = "Ok"])
             /\ IF r.res = "Ok"
                THEN /\ val1' = r.val
                     /\ pc' = "read2"
                     /\ result' = result
                ELSE /\ val1' = val1
                     /\ pc' = "done"
                     /\ result' = "Err"
    /\ UNCHANGED <<args, config, val2, delta, files>>

\* let val2 = parse_json(config.second_input)?;
ParseSecond ==
    /\ pc = "read2"
    /\ \E file \in FileContents :
         LET r == parse_json(file)
         IN  /\ io' = Append(io, [op |-> "read", path |-> Path(config.second_input, ""),
                                  ok |-> r.res = "Ok"])
             /\ IF r.res = "Ok"
                THEN /\ val2' = r.val
                     /\ pc' = "compare"
                     /\ result' = result
                ELSE /\ val2' = val2
                     /\ pc' = "done"
                     /\ result' = "Err"
    /\ UNCHANGED <<args, config, val1, delta, files>>

\* let delta = compare_values(&val1, &val2);
Compare ==
    /\ pc = "compare"
    /\ delta' = compare_values(val1, val2)
    /\ pc' = "write_eq"
    /\ UNCHANGED <<args, config, val1, val2, files, io, result>>

\* Delta::write_delta: to_value, to_string_pretty, fs::write; then the `?`
\* of run.  fs::write may fail before the file is created or after it was
\* truncated; next and last are where run goes on a success.
write_delta(suffix, f, next, last) ==
    \E outcome \in WriteOutcomes :
      LET output == Path(config.output, suffix)
          value == to_value(delta, f)
      IN  /\ io' = Append(io, [op |-> "write", path |-> output, ok |-> outcome = "ok"])
          /\ files' = [files EXCEPT ![output] =
                         CASE outcome = "ok" -> Written(value)
                           [] outcome = "cut_short" -> Partial
                           [] OTHER -> @]
          /\ IF outcome = "ok"
             THEN /\ pc' = next
                  /\ result' = last
             ELSE /\ pc' = "done"
                  /\ result' = "Err"

\* write_delta that swallows a failure and goes on.
write_equal_set_ignore_error ==
    /\ pc = "write_eq"
    /\ \E outcome \in WriteOutcomes :
         LET output == Path(config.output, "_eq.json")
         IN  /\ io' = Append(io, [op |-> "write", path |-> output, ok |-> outcome = "ok"])
             /\ files' = [files EXCEPT ![output] =
                            IF outcome = "ok" THEN Written(to_value(delta, "equal")) ELSE @]
             /\ pc' = "write_ab"
             /\ result' = result
    /\ UNCHANGED <<args, config, val1, val2, delta>>

\* delta.write_equal_set(config.output.to_string() + "_eq.json")?;
write_equal_set ==
    /\ pc = "write_eq"
    /\ write_delta("_eq.json", "equal", "write_ab", result)
    /\ UNCHANGED <<args, config, val1, val2, delta>>

\* delta.write_delta_to_second_set(config.output.to_string() + "_diff_ab.json")?;
write_delta_to_second_set ==
    /\ pc = "write_ab"
    /\ write_delta("_diff_ab.json", "delta_to_second", "write_ba", result)
    /\ UNCHANGED <<args, config, val1, val2, delta>>

\* delta.write_delta_to_first_set(config.output.to_string() + "_diff_ba.json")?;
\* Ok(())
write_delta_to_first_set ==
    /\ pc = "write_ba"
    /\ write_delta("_diff_ba.json", "delta_to_first", "done", "Ok")
    /\ UNCHANGED <<args, config, val1, val2, delta>>

Next ==
    \/ ConfigNew
    \/ ParseFirst
    \/ ParseSecond
    \/ Compare
    \/ write_equal_set
    \/ write_delta_to_second_set
    \/ write_delta_to_first_set

Spec == Init /\ [][Next]_vars

---------------------------------------------------------------------------
(* Vocabulary of the properties                                            *)

RECURSIVE SubDeltas(_)
RECURSIVE Positions(_, _, _)
RECURSIVE Project(_, _)
RECURSIVE SwappedPairs(_, _)

\* run has just bound delta (no later statement modifies it).
Compared == pc = "write_eq"

\* run has returned Ok(()): the three files are written.
Finished == pc = "done" /\ result = "Ok"

EqPath == Path("output", "_eq.json")
AbPath == Path("output", "_diff_ab.json")
BaPath == Path("output", "_diff_ba.json")

\* Every node of a Delta tree.
SubDeltas(d) ==
    {d} \cup
    (IF d.d = "List" THEN UNION { SubDeltas(d.list[i]) : i \in 1..Len(d.list) }
     ELSE IF d.d = "Map" THEN UNION { SubDeltas(d.map[key]) : key \in DOMAIN d.map }
     ELSE {})

\* Every compared position: the two nodes met there and the Delta built.
Positions(n1, n2, d) ==
    {<<n1, n2, d>>} \cup
    (IF n1.k = "Array" /\ n2.k = "Array" /\ d.d = "List"
     THEN UNION { Positions(n1.v[i], n2.v[i], d.list[i]) :
                    i \in 1..Min(Len(d.list), Min(Len(n1.v), Len(n2.v))) }
     ELSE IF n1.k = "Object" /\ n2.k = "Object" /\ d.d = "Map"
     THEN UNION { Positions(n1.v[key], n2.v[key], d.map[key]) :
                    key \in DOMAIN d.map \cap DOMAIN n1.v \cap DOMAIN n2.v }
     ELSE {})

NotNull(val) == val.k # "Null"

\* The projections of the children of a List delta, in order.
ChildValues(d, f) == [i \in 1..Len(d.list) |-> to_value(d.list[i], f)]

\* The top-level keys of a projection (none when it is no object).
KeysOf(val) == IF val.k = "Object" THEN DOMAIN val.v ELSE {}

---------------------------------------------------------------------------
(* C1 *)

\* Every leaf of the Delta is Equal.
AllEqual(d) == \A n \in SubDeltas(d) : n.d \in {"Equal", "List", "Map"}

\* C1: reflexivity.  When both inputs hold the same document D, the Delta
\* is Equal at every leaf, the file of the equal set holds exactly D, and
\* the two diff files hold a document-level null.
C1_Reflexivity ==
    (Finished /\ val1 = val2) =>
        /\ AllEqual(delta)
        /\ files[EqPath] = Written(val1)
        /\ files[AbPath] = Written(Null)
        /\ files[BaPath] = Written(Null)

---------------------------------------------------------------------------
(* C2 *)

\* C2: key-union completeness.  For two map documents the top-level keys of
\* the three written projections are together the keys of both inputs; a
\* key of both with equal values is in the equal set and in neither diff, a
\* key of the first only is in diff_ab alone, a key of the second only is in
\* diff_ba alone.
C2_KeyUnion ==
    (Finished /\ val1.k = "Object" /\ val2.k = "Object") =>
        LET eq == KeysOf(files[EqPath].val)
            ab == KeysOf(files[AbPath].val)
            ba == KeysOf(files[BaPath].val)
            k1 == DOMAIN val1.v
            k2 == DOMAIN val2.v
        IN  /\ eq \cup ab \cup ba = k1 \cup k2
            /\ \A key \in k1 \cap k2 :
                 val1.v[key] = val2.v[key] =>
                     key \in eq /\ key \notin ab /\ key \notin ba
            /\ \A key \in k1 \ k2 : key \in ab /\ key \notin eq /\ key \notin ba
            /\ \A key \in k2 \ k1 : key \in ba /\ key \notin eq /\ key \notin ab

---------------------------------------------------------------------------
(* C3 *)

\* The projection of d under filter f with the two elements of every
\* difference pair exchanged.
SwappedPairs(d, f) ==
    LET r == filter_node(f, d)
    IN  IF r.opt = "Some"
        THEN IF d.d \in {"DifferentContent", "DifferentVariant"}
             THEN Array(<<r.val.v[2], r.val.v[1]>>)
             ELSE r.val
        ELSE IF d.d = "List"
        THEN LET kept == SelectSeq([i \in 1..Len(d.list) |-> SwappedPairs(d.list[i], f)],
                                   NotNull)
             IN  IF kept = <<>> THEN Null ELSE Array(kept)
        ELSE IF d.d = "Map"
        THEN LET keys == { q \in DOMAIN d.map : NotNull(SwappedPairs(d.map[q], f)) }
             IN  IF keys = {} THEN Null
                 ELSE Object([key \in keys |-> SwappedPairs(d.map[key], f)])
        ELSE Null

\* C3 as stated: the written diff_ab of compare_values(A, B) is the
\* diff-relative-to-first projection of compare_values(B, A) with the two
\* elements of every difference pair swapped.
C3_AntisymmetrySwapped ==
    Finished =>
        files[AbPath] =
            Written(SwappedPairs(compare_values(val2, val1), "delta_to_first"))

\* C3 amended: the written diff_ab of compare_values(A, B) is the
\* diff-relative-to-first projection of compare_values(B, A) as it stands:
\* a pair reads [node of A, node of B] in both, and nothing is swapped.
C3_Antisymmetry ==
    Finished =>
        files[AbPath] = Written(to_value(compare_values(val2, val1), "delta_to_first"))

\* Two documents that differ in the content of one position and where the
\* first has a position the second lacks have been compared and written.
C3_Witness ==
    /\ Finished
    /\ \E n \in SubDeltas(delta) : n.d = "DifferentContent"
    /\ \E n \in SubDeltas(delta) : n.d = "MissingInSecond" /\ NotNull(n.v)
    /\ val1.k = "Object"

---------------------------------------------------------------------------
(* C4 *)

\* The fold of section 4.2 with "absent" kept apart from every document
\* value: None is absent, Some(v) is the node v.
Project(d, f) ==
    LET r == filter_node(f, d)
    IN  IF r.opt = "Some" THEN r
        ELSE IF d.d = "List"
        THEN LET ps == [i \in 1..Len(d.list) |-> Project(d.list[i], f)]
                 present(p) == p.opt = "Some"
                 kept == SelectSeq(ps, present)
             IN  IF kept = <<>> THEN None
                 ELSE Some(Array([i \in 1..Len(kept) |-> kept[i].val]))
        ELSE IF d.d = "Map"
        THEN LET keys == { q \in DOMAIN d.map : Project(d.map[q], f).opt = "Some" }
             IN  IF keys = {} THEN None
                 ELSE Some(Object([key \in keys |-> Project(d.map[key], f).val]))
        ELSE None

\* An absent projection is written as a document-level null.
Render(p) == IF p.opt = "Some" THEN p.val ELSE Null

\* C4: a node the filter returns is the projection of its Delta node and is
\* kept in the enclosing List or Map; only a child whose projection is
\* absent is pruned.  So under the equal filter every child Equal(v) is in
\* its parent's projection with value v, a null v included.
C4_VerbatimKept ==
    Compared =>
        \A n \in SubDeltas(delta) : \A f \in Filters :
            to_value(n, f) = Render(Project(n, f))

---------------------------------------------------------------------------
(* C5 *)

\* C5: positional list comparison.  At every position where two lists l1
\* and l2 are compared the Delta is List(d) with max(len) entries, entry i
\* being compare_values(l1[i], l2[i]) up to the shorter length and then
\* MissingInSecond(l1[i]) if l1 is longer, MissingInFirst(l2[i]) if l2 is;
\* and [1,2,3] against [1,9] is written as [[2,9],3] and [[9,2]].
C5_PositionalList ==
    /\ Compared =>
         \A p \in Positions(val1, val2, delta) :
            (p[1].k = "Array" /\ p[2].k = "Array") =>
                LET l1 == p[1].v
                    l2 == p[2].v
                    d == p[3]
                IN  /\ d.d = "List"
                    /\ Len(d.list) = Max(Len(l1), Len(l2))
                    /\ \A i \in 1..Len(d.list) :
                         IF i <= Len(l1) /\ i <= Len(l2)
                         THEN d.list[i] = compare_values(l1[i], l2[i])
                         ELSE IF i <= Len(l1)
                         THEN d.list[i] = MissingInSecond(l1[i])
                         ELSE d.list[i] = MissingInFirst(l2[i])
    /\ ( /\ Finished
         /\ val1 = Array(<<Number(1), Number(2), Number(3)>>)
         /\ val2 = Array(<<Number(1), Number(9)>>) ) =>
            /\ delta = List(<<Equal(Number(1)),
                              DifferentContent(Number(2), Number(9)),
                              MissingInSecond(Number(3))>>)
            /\ files[AbPath] =
                 Written(Array(<<Array(<<Number(2), Number(9)>>), Number(3)>>))
            /\ files[BaPath] = Written(Array(<<Array(<<Number(9), Number(2)>>)>>))

\* [1,2,3] has been compared with [1,9] and the three files are written.
C5_Witness ==
    /\ Finished
    /\ val1 = Array(<<Number(1), Number(2), Number(3)>>)
    /\ val2 = Array(<<Number(1), Number(9)>>)
    /\ Len(delta.list) = 3

---------------------------------------------------------------------------
(* C6 *)

\* C6: map comparison by key union.  At every position where two maps m1
\* and m2 are compared the Delta is Map(m) with the keys of m1 and of m2
\* and no other; a key of both holds compare_values of the two values, a
\* key of m1 only MissingInSecond, a key of m2 only MissingInFirst.
C6_MapKeyUnion ==
    Compared =>
        \A p \in Positions(val1, val2, delta) :
            (p[1].k = "Object" /\ p[2].k = "Object") =>
                LET m1 == p[1].v
                    m2 == p[2].v
                    d == p[3]
                IN  /\ d.d = "Map"
                    /\ DOMAIN d.map = DOMAIN m1 \cup DOMAIN m2
                    /\ \A key \in DOMAIN d.map :
                         IF key \in DOMAIN m1 /\ key \in DOMAIN m2
                         THEN d.map[key] = compare_values(m1[key], m2[key])
                         ELSE IF key \in DOMAIN m1
                         THEN d.map[key] = MissingInSecond(m1[key])
                         ELSE d.map[key] = MissingInFirst(m2[key])

\* Two maps with a common key, a key of the first only and a key of the
\* second only have been compared.
C6_Witness ==
    /\ Compared
    /\ val1.k = "Object" /\ val2.k = "Object"
    /\ DOMAIN val1.v \cap DOMAIN val2.v # {}
    /\ DOMAIN val1.v \ DOMAIN val2.v # {}
    /\ DOMAIN val2.v \ DOMAIN val1.v # {}
    /\ \E key \in DOMAIN delta.map : delta.map[key].d = "MissingInFirst"

---------------------------------------------------------------------------
(* C7 *)

\* C7: variant mismatch.  At every compared position whose two nodes are of
\* different kinds the Delta is DifferentVariant(n1, n2); a
\* DifferentContent joins two unequal nodes of one scalar kind; and both
\* project to [n1, n2] relative to the second, to [n2, n1] relative to the
\* first, and to nothing in the equal set.
C7_VariantMismatch ==
    /\ Compared =>
         /\ \A p \in Positions(val1, val2, delta) :
              /\ p[1].k # p[2].k => p[3] = DifferentVariant(p[1], p[2])
              /\ p[3].d = "DifferentVariant" => p[1].k # p[2].k
              /\ p[3].d = "DifferentContent" =>
                    /\ p[1].k = p[2].k
                    /\ p[1].k \in {"Bool", "Number", "String"}
                    /\ p[1] # p[2]
         /\ \A n \in SubDeltas(delta) :
              n.d \in {"DifferentVariant", "DifferentContent"} =>
                  /\ to_value(n, "delta_to_second") = Array(<<n.v1, n.v2>>)
                  /\ to_value(n, "delta_to_first") = Array(<<n.v2, n.v1>>)
                  /\ to_value(n, "equal") = Null
    /\ (Finished /\ val1.k # val2.k) =>
         /\ files[EqPath] = Written(Null)
         /\ files[AbPath] = Written(Array(<<val1, val2>>))
         /\ files[BaPath] = Written(Array(<<val2, val1>>))

\* {"a":1} has been compared with {"a":[1]} and the three files are written.
C7_Witness ==
    /\ Finished
    /\ val1 = Object([key \in {"a"} |-> Number(1)])
    /\ val2 = Object([key \in {"a"} |-> Array(<<Number(1)>>)])
    /\ delta.map["a"].d = "DifferentVariant"
    /\ files[AbPath].val.v["a"] = Array(<<Number(1), Array(<<Number(1)>>)>>)

---------------------------------------------------------------------------
(* C8 *)

\* C8: argument-count check.  Config::new returns the usage error for every
\* command line other than the program name followed by exactly three
\* arguments, before any file is read or written; with exactly three it
\* succeeds and binds them in order.
C8_ArgumentCount ==
    pc # "config" =>
        /\ (result = "usage") <=> (Len(args) # 4)
        /\ result = "usage" =>
              io = <<>> /\ \A p \in OutPaths : files[p] = Absent
        /\ Len(args) = 4 =>
              config = [first_input |-> args[2], second_input |-> args[3],
                        output |-> args[4]]

---------------------------------------------------------------------------
(* C9 *)

\* C9: projector pruning.  Where the filter declines at a List (a Map) the
\* projection is the children's projections in their order (under their
\* keys) without the absent ones, absent itself if none is left; where it
\* declines at another kind the projection is absent.  No List or Map the
\* fold builds is empty or has a null child.
C9_Pruning ==
    Compared =>
        \A n \in SubDeltas(delta) : \A f \in Filters :
            filter_node(f, n) = None =>
                LET p == to_value(n, f)
                IN  CASE n.d = "List" ->
                           LET kept == SelectSeq(ChildValues(n, f), NotNull)
                           IN  /\ p = IF kept = <<>> THEN Null ELSE Array(kept)
                               /\ p.k = "Array" =>
                                     /\ p.v # <<>>
                                     /\ \A i \in 1..Len(p.v) : NotNull(p.v[i])
                       [] n.d = "Map" ->
                           LET keys == { q \in DOMAIN n.map : NotNull(to_value(n.map[q], f)) }
                           IN  /\ keys = {} => p = Null
                               /\ keys # {} =>
                                     /\ p.k = "Object"
                                     /\ DOMAIN p.v = keys
                                     /\ \A key \in keys :
                                          p.v[key] = to_value(n.map[key], f)
                       [] OTHER -> p = Null

\* A list holding a list and a map has been compared with another: the
\* equal set keeps the one equal number and prunes everything else.
C9_Witness ==
    /\ Finished
    /\ delta.d = "List"
    /\ Len(delta.list) = 2
    /\ delta.list[1].d = "List"
    /\ delta.list[2].d = "Map"
    /\ delta.list[1].list[1] = Equal(Number(1))
    /\ Len(delta.list[1].list) = 2
    /\ files[EqPath] = Written(Array(<<Array(<<Number(1)>>)>>))

---------------------------------------------------------------------------
(* C10 *)

\* The five reads and writes of run, in the order of its statements.
Steps ==
    << [op |-> "read", path |-> Path(config.first_input, "")],
       [op |-> "read", path |-> Path(config.second_input, "")],
       [op |-> "write", path |-> Path(config.output, "_eq.json")],
       [op |-> "write", path |-> Path(config.output, "_diff_ab.json")],
       [op |-> "write", path |-> Path(config.output, "_diff_ba.json")] >>

\* The output file that step i (3, 4 or 5) writes.
StepFile(i) == CASE i = 3 -> EqPath [] i = 4 -> AbPath [] OTHER -> BaPath

\* The i-th step was performed and succeeded.
Succeeded(i) == i <= Len(io) /\ io[i].ok

\* C10: fail-fast ordering.  The reads and writes performed are a prefix of
\* read(input1), read(input2), write(eq), write(diff_ab), write(diff_ba);
\* only the last one performed can have failed, and then run has returned
\* an error; an output holds a projection exactly when its write succeeded
\* and is untouched when its write was never started; run returns Ok only
\* after all five succeeded.
C10_FailFast ==
    /\ Len(io) <= 5
    /\ \A i \in 1..Len(io) :
         /\ io[i].op = Steps[i].op
         /\ io[i].path = Steps[i].path
         /\ i < Len(io) => io[i].ok
         /\ ~io[i].ok => pc = "done" /\ result = "Err"
    /\ \A i \in 3..5 :
         /\ files[StepFile(i)].st = "written" <=> Succeeded(i)
         /\ Len(io) < i => files[StepFile(i)] = Absent
    /\ (~Succeeded(1) \/ ~Succeeded(2)) =>
         \A p \in OutPaths : files[p] = Absent
    /\ result = "Ok" <=> \A i \in 1..5 : Succeeded(i)
    /\ result = "Err" => (Len(io) >= 1 /\ ~io[Len(io)].ok)

\* The write of the second file failed after the first file was written.
C10_Witness ==
    /\ result = "Err"
    /\ Len(io) = 4
    /\ files[EqPath].st = "written"
    /\ files[AbPath] = Partial
    /\ files[BaPath] = Absent

=============================================================================
